---------------------------- MODULE Spec2Model ----------------------------
(***************************************************************************)
(* A model of vue-masonry-css (src/src/index.js): the breakpoint resolver  *)
(* breakpointValue, the column distributor _getChildItemsInColumnsArray,   *)
(* the component's lifecycle hooks with reCalculate, and Plugin.install.   *)
(*                                                                         *)
(* JavaScript values are records [t, n, s, m]: t is the kind, n the number *)
(* of a "num", s the characters of a "str" (a sequence of one-character    *)
(* strings, so that parseInt and ToString are computed character by        *)
(* character), m the entries of an "obj" in for-in order.                  *)
(***************************************************************************)
EXTENDS Integers, Sequences, FiniteSets

\* ------------------------------------------------------------- bounds
MaxWidth == 2
MaxBreakpoint == 3
MaxKeys == 2
MaxChildren == 4
MaxHeight == 1
MaxCols == 3
MaxInstalls == 4

\* ------------------------------------------------------- JavaScript values
Num(i) == [t |-> "num", n |-> i, s |-> <<>>, m |-> <<>>]
Str(cs) == [t |-> "str", n |-> 0, s |-> cs, m |-> <<>>]
Obj(es) == [t |-> "obj", n |-> 0, s |-> <<>>, m |-> es]
NaN == [t |-> "nan", n |-> 0, s |-> <<>>, m |-> <<>>]
Infinity == [t |-> "inf", n |-> 0, s |-> <<>>, m |-> <<>>]
Null == [t |-> "null", n |-> 0, s |-> <<>>, m |-> <<>>]
Undefined == [t |-> "undefined", n |-> 0, s |-> <<>>, m |-> <<>>]
\* the outcome of a call that ends in an uncaught TypeError
TypeError == [t |-> "TypeError", n |-> 0, s |-> <<>>, m |-> <<>>]

Digits == <<"0", "1", "2", "3", "4", "5", "6", "7", "8", "9">>
IsDigit(c) == \E i \in 1..10 : Digits[i] = c
DigitVal(c) == (CHOOSE i \in 1..10 : Digits[i] = c) - 1

RECURSIVE NatToStr(_)
NatToStr(i) ==
    IF i < 10 THEN <<Digits[i + 1]>>
    ELSE NatToStr(i \div 10) \o <<Digits[(i % 10) + 1]>>

\* ToString of a value, as parseInt and property access apply it
ToString(v) ==
    CASE v.t = "num" -> IF v.n < 0 THEN <<"-">> \o NatToStr(-v.n) ELSE NatToStr(v.n)
      [] v.t = "str" -> v.s
      [] v.t = "nan" -> <<"N", "a", "N">>
      [] v.t = "inf" -> <<"I", "n", "f", "i", "n", "i", "t", "y">>
      [] v.t = "null" -> <<"n", "u", "l", "l">>
      [] v.t = "undefined" -> <<"u", "n", "d", "e", "f", "i", "n", "e", "d">>
      [] OTHER -> <<"[", "o", "b", "j", "e", "c", "t", " ", "O", "b", "j", "e", "c", "t", "]">>

RECURSIVE SkipWhite(_)
SkipWhite(cs) ==
    IF cs # <<>> /\ Head(cs) = " " THEN SkipWhite(Tail(cs)) ELSE cs

\* the value of the longest prefix of decimal digits; -1 when there is none
RECURSIVE DigitPrefix(_, _)
DigitPrefix(cs, acc) ==
    IF cs # <<>> /\ IsDigit(Head(cs))
    THEN DigitPrefix(Tail(cs), (IF acc < 0 THEN 0 ELSE acc * 10) + DigitVal(Head(cs)))
    ELSE acc

\* parseInt(v) with no radix: ToString, leading blanks, a sign, decimal digits
parseInt(v) ==
    LET cs == SkipWhite(ToString(v))
        neg == cs # <<>> /\ Head(cs) = "-"
        body == IF cs # <<>> /\ Head(cs) \in {"-", "+"} THEN Tail(cs) ELSE cs
        d == DigitPrefix(body, -1)
    IN IF d < 0 THEN NaN ELSE Num(IF neg THEN -d ELSE d)

IsNaN(v) == v.t = "nan"

\* Number(v): the whole (trimmed) string must be a decimal integer
RECURSIVE AllDigits(_)
AllDigits(cs) == cs = <<>> \/ (IsDigit(Head(cs)) /\ AllDigits(Tail(cs)))

RECURSIVE TrimRight(_)
TrimRight(cs) ==
    IF cs # <<>> /\ cs[Len(cs)] = " " THEN TrimRight(SubSeq(cs, 1, Len(cs) - 1)) ELSE cs

ToNumber(v) ==
    CASE v.t = "num" -> v
      [] v.t = "inf" -> v
      [] v.t = "null" -> Num(0)
      [] v.t = "str" ->
           LET cs == TrimRight(SkipWhite(v.s))
               neg == cs # <<>> /\ Head(cs) = "-"
               body == IF cs # <<>> /\ Head(cs) \in {"-", "+"} THEN Tail(cs) ELSE cs
           IN IF cs = <<>> THEN Num(0)
              ELSE IF body # <<>> /\ AllDigits(body)
                   THEN Num(IF neg THEN -DigitPrefix(body, -1) ELSE DigitPrefix(body, -1))
                   ELSE NaN
      [] OTHER -> NaN

\* ToBoolean
Truthy(v) ==
    CASE v.t = "num" -> v.n # 0
      [] v.t = "str" -> v.s # <<>>
      [] v.t \in {"nan", "null", "undefined"} -> FALSE
      [] OTHER -> TRUE

TypeOf(v) ==
    CASE v.t \in {"num", "nan", "inf"} -> "number"
      [] v.t = "str" -> "string"
      [] v.t = "undefined" -> "undefined"
      [] OTHER -> "object"

\* a < b and a <= b on numbers, NaN and Infinity
Less(a, b) ==
    CASE a.t = "num" /\ b.t = "num" -> a.n < b.n
      [] a.t = "num" /\ b.t = "inf" -> TRUE
      [] OTHER -> FALSE

LessEq(a, b) ==
    CASE a.t = "num" /\ b.t = "num" -> a.n <= b.n
      [] a.t = "num" /\ b.t = "inf" -> TRUE
      [] a.t = "inf" /\ b.t = "inf" -> TRUE
      [] OTHER -> FALSE

\* mixed[key]: the value of the own property named ToString(key)
RECURSIVE Lookup(_, _)
Lookup(es, name) ==
    IF es = <<>> THEN Undefined
    ELSE IF Head(es).k = name THEN Head(es).v
    ELSE Lookup(Tail(es), name)

GetProp(o, key) == Lookup(o.m, ToString(key))

DefaultKey == <<"d", "e", "f", "a", "u", "l", "t">>

\* ------------------------------------------------------- breakpointValue
\* the body of the for-in loop, from entry i on
RECURSIVE ForIn(_, _, _, _, _)
ForIn(mixed, i, matchedBreakpoint, matchedValue, windowWidth) ==
    IF i > Len(mixed.m) THEN matchedValue
    ELSE LET breakpoint == parseInt(Str(mixed.m[i].k))
             breakpointValRaw == GetProp(mixed, breakpoint)
             breakpointVal == parseInt(breakpointValRaw)
             isNewBreakpoint == LessEq(windowWidth, breakpoint)
                                /\ Less(breakpoint, matchedBreakpoint)
         IN IF IsNaN(breakpoint) \/ IsNaN(breakpointVal)
            THEN ForIn(mixed, i + 1, matchedBreakpoint, matchedValue, windowWidth)
            ELSE IF isNewBreakpoint
            THEN ForIn(mixed, i + 1, breakpoint, breakpointValRaw, windowWidth)
            ELSE ForIn(mixed, i + 1, matchedBreakpoint, matchedValue, windowWidth)

breakpointValue(mixed, windowWidth) ==
    LET valueAsNum == parseInt(mixed)
    IN IF Less(Num(-1), valueAsNum) THEN mixed
       ELSE IF TypeOf(mixed) # "object" THEN Num(0)
       ELSE IF mixed.t = "null" THEN TypeError
       ELSE LET dflt == Lookup(mixed.m, DefaultKey)
            IN ForIn(mixed, 1, Infinity, IF Truthy(dflt) THEN dflt ELSE Num(0),
                     windowWidth)


\* ------------------------------------------------------- input universes
Chars(str) ==
    CASE str = "2px" -> <<"2", "p", "x">>
      [] str = "3px" -> <<"3", "p", "x">>
      [] str = "abc" -> <<"a", "b", "c">>
      [] str = "-2" -> <<"-", "2">>
      [] str = " 1" -> <<" ", "1">>
      [] OTHER -> <<>>

\* the property names an object may hold, in for-in order: the integer keys
\* ascending, then the other names in creation order
KeyUniverse ==
    [i \in 1..(MaxBreakpoint + 1) |-> NatToStr(i - 1)]
        \o <<Chars("2px"), Chars("abc"), DefaultKey>>

EntryValues ==
    {Num(0), Num(1), Num(2), Num(-1), Str(Chars("3px")), Str(Chars("abc")), Null}

Nth(S, i) == CHOOSE x \in S : Cardinality({y \in S : y < x}) = i - 1

\* every object of at most maxKeys entries over KeyUniverse and EntryValues
Objects(maxKeys) ==
    UNION {
        { Obj([i \in 1..Cardinality(S) |-> [k |-> KeyUniverse[Nth(S, i)], v |-> f[Nth(S, i)]]])
          : f \in [S -> EntryValues] }
        : S \in {T \in SUBSET (1..Len(KeyUniverse)) : Cardinality(T) <= maxKeys} }

Scalars ==
    {Num(-1), Num(0), Num(2), Num(5), Str(Chars("3px")), Str(Chars("abc")), Str(Chars("-2")),
     Str(Chars(" 1")), Str(<<>>), Null, NaN, Infinity}

\* the values breakpointValue is called with
Configured(maxKeys) == Scalars \cup Objects(maxKeys)

\* the widths reCalculate passes on: window.innerWidth || Infinity
Widths == {Num(w) : w \in 1..MaxWidth} \cup {Infinity}
\* the widths breakpointValue may be called with
WidthArgs == Widths \cup {Num(0)}


\* ------------------------------------------------------------- state
VARIABLES
    \* a call of breakpointValue on its own
    mixed, width, result, rpc,
    \* the component: props, environment, data, lifecycle
    cols, gutter, fillGaps, hasWindow, innerWidth, windowWidth,
    displayColumns, displayGutter, lifecycle, listener, pending, dirty, outcome,
    \* Plugin and the host's component registry
    installed, registry,
    \* one pass of _getChildItemsInColumnsArray
    slots, vnodes, index, heights, columns, dpc

resolverVars == <<mixed, width, result, rpc>>
propVars == <<cols, gutter, fillGaps, hasWindow>>
dataVars == <<displayColumns, displayGutter>>
controlVars == <<innerWidth, windowWidth, lifecycle, listener, pending, dirty, outcome>>
pluginVars == <<installed, registry>>
passVars == <<slots, vnodes, index, heights, columns, dpc>>
vars == <<resolverVars, propVars, dataVars, controlVars, pluginVars, passVars>>

componentName == <<"m", "a", "s", "o", "n", "r", "y">>
DefaultCols == 2
DefaultGutter == 0
DefaultDisplayColumns == 2
DefaultDisplayGutter == 0

ResolverIdle == mixed = Null /\ width = Infinity /\ result = Undefined /\ rpc = "idle"
PassIdle ==
    /\ slots = <<>> /\ vnodes = <<>> /\ index = 0
    /\ heights = <<>> /\ columns = <<>> /\ dpc = "idle"
PluginIdle == installed = FALSE /\ registry = <<>>
\* data() and the instance before mounted
DataInit ==
    /\ displayColumns = Num(DefaultDisplayColumns)
    /\ displayGutter = Num(DefaultDisplayGutter)
ControlIdle ==
    /\ windowWidth = Undefined /\ lifecycle = "created" /\ listener = FALSE
    /\ pending = 0 /\ dirty = FALSE /\ outcome = "none"

\* ---------------------------------------------- breakpointValue on its own
InitResolve ==
    /\ mixed \in Configured(MaxKeys) /\ width \in WidthArgs
    /\ result = Undefined /\ rpc = "call"
    /\ cols = Num(DefaultCols) /\ gutter = Num(DefaultGutter) /\ fillGaps = FALSE
    /\ hasWindow = TRUE /\ innerWidth = 0
    /\ DataInit /\ ControlIdle /\ PluginIdle /\ PassIdle

CallBreakpointValue ==
    /\ rpc = "call"
    /\ result' = breakpointValue(mixed, width)
    /\ rpc' = "return"
    /\ UNCHANGED <<mixed, width, propVars, dataVars, controlVars, pluginVars, passVars>>

NextResolve == CallBreakpointValue

SpecResolve == InitResolve /\ [][NextResolve]_vars


\* ------------------------------------------------------------- C1
\* The result the claim describes, as the set of values it allows (two keys
\* that parse to the same integer are both "the smallest key").
ParsesNonNegative(v) == parseInt(v).t = "num" /\ parseInt(v).n >= 0

HasKey(o, name) == \E i \in 1..Len(o.m) : o.m[i].k = name

ClaimedCandidates(o, w) ==
    {i \in 1..Len(o.m) :
        /\ parseInt(Str(o.m[i].k)).t = "num"
        /\ ~IsNaN(parseInt(o.m[i].v))
        /\ LessEq(w, parseInt(Str(o.m[i].k)))}

ClaimedResults(configured, w) ==
    IF ParsesNonNegative(configured) THEN {configured}
    ELSE IF configured.t # "obj" THEN {Num(0)}
    ELSE LET cand == ClaimedCandidates(configured, w)
             key(i) == parseInt(Str(configured.m[i].k)).n
         IN IF cand = {}
            THEN {IF HasKey(configured, DefaultKey)
                  THEN Lookup(configured.m, DefaultKey) ELSE Num(0)}
            ELSE {configured.m[i].v : i \in {j \in cand : \A l \in cand : key(j) <= key(l)}}

\* C1: for every configured value and width, breakpointValue returns the
\* configured value itself when it parses as a non-negative number, 0 when it
\* is neither numeric nor a mapping, and otherwise the raw value under the
\* smallest parsing key >= width, or the default entry, or 0.
C1_ResolveMatchesReference ==
    rpc = "return" => result \in ClaimedResults(mixed, width)


\* ------------------------------------------------------------ component
Entry(key, v) == [k |-> key, v |-> v]

\* the values the host passes as `cols` and as `gutter`
ColsConfigs ==
    {Num(DefaultCols), Str(Chars("abc")), Str(Chars("3px")), Null,
     Obj(<<Entry(NatToStr(1), Num(1)), Entry(NatToStr(MaxBreakpoint), Num(3)),
           Entry(DefaultKey, Num(4))>>),
     Obj(<<Entry(NatToStr(2), Num(0)), Entry(Chars("abc"), Num(5)),
           Entry(DefaultKey, Num(-1))>>)}

GutterConfigs ==
    {Num(DefaultGutter), Null,
     Obj(<<Entry(NatToStr(2), Num(1)), Entry(DefaultKey, Str(Chars("3px")))>>)}

\* (window ? window.innerWidth : null) || Infinity, for innerWidth iw
CurrentWidth(iw) == IF hasWindow /\ iw # 0 THEN Num(iw) ELSE Infinity

\* Math.max(1, x) on numbers
MathMax1(x) == IF Less(Num(1), x) THEN x ELSE Num(1)

\* x || 0
OrZero(x) == IF Truthy(x) THEN x ELSE Num(0)

\* the value _reCalculateColumnCount stores, for the resolved newColumns
ColumnCountUnclamped(newColumns) == OrZero(ToNumber(newColumns))
ColumnCount(newColumns) == MathMax1(OrZero(ToNumber(newColumns)))

\* reCalculate without the unchanged-width return
reCalculateAlways(iw) ==
    LET ww == CurrentWidth(iw)
        newColumns == breakpointValue(cols, ww)
        newGutter == breakpointValue(gutter, ww)
    IN [windowWidth |-> ww,
        displayColumns |-> IF newColumns = TypeError THEN displayColumns
                           ELSE ColumnCount(newColumns),
        displayGutter |-> IF newColumns = TypeError \/ newGutter = TypeError
                          THEN displayGutter ELSE newGutter,
        outcome |-> IF newColumns = TypeError \/ newGutter = TypeError
                    THEN "TypeError" ELSE "updated"]

\* reCalculate(), run when window.innerWidth is iw: the data it leaves and how
\* it ended ("unchanged": the early return; "TypeError": an uncaught throw of
\* breakpointValue, after which the later statements did not run)
reCalculate(iw) ==
    LET previousWindowWidth == windowWidth
        ww == CurrentWidth(iw)
        newColumns == breakpointValue(cols, ww)
        newGutter == breakpointValue(gutter, ww)
    IN IF previousWindowWidth = ww
       THEN [windowWidth |-> ww, displayColumns |-> displayColumns,
             displayGutter |-> displayGutter, outcome |-> "unchanged"]
       ELSE IF newColumns = TypeError
       THEN [windowWidth |-> ww, displayColumns |-> displayColumns,
             displayGutter |-> displayGutter, outcome |-> "TypeError"]
       ELSE IF newGutter = TypeError
       THEN [windowWidth |-> ww, displayColumns |-> ColumnCount(newColumns),
             displayGutter |-> displayGutter, outcome |-> "TypeError"]
       ELSE [windowWidth |-> ww, displayColumns |-> ColumnCount(newColumns),
             displayGutter |-> newGutter, outcome |-> "updated"]

\* the state change of one run of reCalculate; a changed displayColumns or
\* displayGutter invalidates the rendering
RunReCalculate(iw) ==
    LET r == reCalculate(iw)
    IN /\ windowWidth' = r.windowWidth
       /\ displayColumns' = r.displayColumns
       /\ displayGutter' = r.displayGutter
       /\ outcome' = r.outcome
       /\ dirty' = (dirty \/ r.displayColumns # displayColumns
                          \/ r.displayGutter # displayGutter)

Init ==
    /\ cols \in ColsConfigs /\ gutter \in GutterConfigs /\ fillGaps = FALSE
    /\ hasWindow \in BOOLEAN /\ innerWidth \in 0..MaxWidth
    /\ DataInit /\ ControlIdle /\ PluginIdle /\ ResolverIdle /\ PassIdle

\* the mounted hook of an instance of the registered component
mounted ==
    /\ lifecycle = "created"
    /\ lifecycle' = "mounted"
    /\ pending' = pending + 1
    /\ listener' = (IF hasWindow THEN TRUE ELSE listener)
    /\ UNCHANGED <<innerWidth, windowWidth, dirty, outcome>>
    /\ UNCHANGED <<resolverVars, propVars, dataVars, pluginVars, passVars>>

\* the host passes new props (or new slot content), which invalidates the
\* rendering; it does so in a task of its own, after the queued $nextTick
\* callbacks have run
SetProps(c, g) ==
    /\ lifecycle = "mounted" /\ pending = 0
    /\ cols' = c /\ gutter' = g
    /\ dirty' = TRUE
    /\ UNCHANGED <<fillGaps, hasWindow, innerWidth, windowWidth, lifecycle, listener,
                   pending, outcome>>
    /\ UNCHANGED <<resolverVars, dataVars, pluginVars, passVars>>

\* the updated hook, after the host re-rendered the instance
updated ==
    /\ lifecycle = "mounted" /\ dirty
    /\ dirty' = FALSE
    /\ pending' = pending + 1
    /\ UNCHANGED <<innerWidth, windowWidth, lifecycle, listener, outcome>>
    /\ UNCHANGED <<resolverVars, propVars, dataVars, pluginVars, passVars>>

\* a callback queued with $nextTick runs
NextTick ==
    /\ pending > 0
    /\ pending' = pending - 1
    /\ RunReCalculate(innerWidth)
    /\ UNCHANGED <<innerWidth, lifecycle, listener>>
    /\ UNCHANGED <<resolverVars, propVars, pluginVars, passVars>>

\* the window is resized to w and dispatches `resize` to the registered
\* listener; an event is a task, which starts after the queued $nextTick
\* callbacks have run
Resize(w) ==
    /\ hasWindow /\ pending = 0
    /\ innerWidth' = w
    /\ IF listener
       THEN RunReCalculate(w)
       ELSE UNCHANGED <<windowWidth, displayColumns, displayGutter, outcome, dirty>>
    /\ UNCHANGED <<lifecycle, listener, pending>>
    /\ UNCHANGED <<resolverVars, propVars, pluginVars, passVars>>

\* beforeDestroy that leaves the listener registered
beforeDestroyKeepListener ==
    /\ lifecycle = "mounted"
    /\ lifecycle' = "destroyed"
    /\ UNCHANGED <<innerWidth, windowWidth, listener, pending, dirty, outcome>>
    /\ UNCHANGED <<resolverVars, propVars, dataVars, pluginVars, passVars>>

beforeDestroy ==
    /\ lifecycle = "mounted"
    /\ lifecycle' = "destroyed"
    /\ listener' = (IF hasWindow THEN FALSE ELSE listener)
    /\ UNCHANGED <<innerWidth, windowWidth, pending, dirty, outcome>>
    /\ UNCHANGED <<resolverVars, propVars, dataVars, pluginVars, passVars>>

Next ==
    \/ mounted
    \/ \E c \in ColsConfigs, g \in GutterConfigs : SetProps(c, g)
    \/ updated
    \/ NextTick
    \/ \E w \in 0..MaxWidth : Resize(w)
    \/ beforeDestroy

Spec == Init /\ [][Next]_vars


\* --------------------------------------------------------- Plugin.install
\* the names a host passes as options.name (<<>>: none given)
PluginNames == {<<>>, <<"g", "r", "i", "d">>, <<"w", "a", "l", "l">>}

InitInstall ==
    /\ PluginIdle
    /\ cols = Num(DefaultCols) /\ gutter = Num(DefaultGutter) /\ fillGaps = FALSE
    /\ hasWindow = TRUE /\ innerWidth = 0
    /\ DataInit /\ ControlIdle /\ ResolverIdle /\ PassIdle

\* Plugin.install(Vue, options) with options.name = name; registry lists the
\* host's Vue.component calls in order
Install(name) ==
    /\ Len(registry) < MaxInstalls
    /\ IF installed
       THEN registry' = registry
       ELSE registry' = Append(registry, IF name # <<>> THEN name ELSE componentName)
    /\ UNCHANGED <<installed, resolverVars, propVars, dataVars, controlVars, passVars>>

NextInstall == \E name \in PluginNames : Install(name)

SpecInstall == InitInstall /\ [][NextInstall]_vars


\* ------------------------------------------ _getChildItemsInColumnsArray
\* A vnode: id is its identity, tag whether it has a tag, elm whether it has
\* been mounted (offsetHeight is then its height), group whether it is a
\* <transition-group> component (kids are then its children).
Vnode(id, kind) ==
    [id |-> id, tag |-> kind # -2, elm |-> kind >= 0,
     offsetHeight |-> IF kind >= 0 THEN kind ELSE 0, group |-> FALSE, kids |-> <<>>]

TransitionGroup(id, kids) ==
    [id |-> id, tag |-> TRUE, elm |-> FALSE, offsetHeight |-> 0, group |-> TRUE,
     kids |-> kids]

\* -2: a node with no tag; -1: a tagged node not mounted yet; h >= 0: a
\* mounted element of height h
VnodeKinds == {-2, -1} \cup (0..MaxHeight)

VnodeSeqs(firstId, maxLen) ==
    UNION {{[i \in 1..n |-> Vnode(firstId + i - 1, f[i])] : f \in [1..n -> VnodeKinds]}
           : n \in 0..maxLen}

\* this.$slots.default || []: plain children, or a <transition-group> first,
\* alone or followed by a sibling
SlotContents ==
    VnodeSeqs(1, MaxChildren)
        \cup {<<TransitionGroup(1, kids)>> \o rest :
                kids \in VnodeSeqs(11, MaxChildren), rest \in {<<>>, <<Vnode(2, -1)>>}}

RECURSIVE FilterTagged(_)
FilterTagged(vs) ==
    IF vs = <<>> THEN <<>>
    ELSE IF Head(vs).tag THEN <<Head(vs)>> \o FilterTagged(Tail(vs))
    ELSE FilterTagged(Tail(vs))

\* the loop of getShortestColumnIndex from srcIndex (0-based) on; trgIndex
\* is -1 while trgHeight is undefined
RECURSIVE ShortestFrom(_, _, _, _)
ShortestFrom(hs, srcIndex, trgIndex, trgHeight) ==
    IF srcIndex >= Len(hs) THEN trgIndex
    ELSE LET srcHeight == hs[srcIndex + 1]
         IN IF trgIndex = -1 \/ srcHeight < trgHeight
            THEN ShortestFrom(hs, srcIndex + 1, srcIndex, srcHeight)
            ELSE ShortestFrom(hs, srcIndex + 1, trgIndex, trgHeight)

\* the same loop with <= for <: the last minimum wins
RECURSIVE ShortestFromLast(_, _, _, _)
ShortestFromLast(hs, srcIndex, trgIndex, trgHeight) ==
    IF srcIndex >= Len(hs) THEN trgIndex
    ELSE LET srcHeight == hs[srcIndex + 1]
         IN IF trgIndex = -1 \/ srcHeight <= trgHeight
            THEN ShortestFromLast(hs, srcIndex + 1, srcIndex, srcHeight)
            ELSE ShortestFromLast(hs, srcIndex + 1, trgIndex, trgHeight)

getShortestColumnIndexLast(hs) == ShortestFromLast(hs, 0, -1, 0)

getShortestColumnIndex(hs) == ShortestFrom(hs, 0, -1, 0)

\* `columns` is a JavaScript array that may have holes: each element is
\* [present, items], a hole being [present |-> FALSE, items |-> <<>>]
Hole == [present |-> FALSE, items |-> <<>>]
Bucket(items) == [present |-> TRUE, items |-> items]

\* const columns = [] filled with an empty bucket per column instead
InitialColumnsFilled(n) == [i \in 1..n |-> Bucket(<<>>)]

\* const columns = []
InitialColumns(n) == <<>>

\* if (!columns[colIndex]) columns[colIndex] = []; columns[colIndex].push(id)
PushInto(cs, colIndex, id) ==
    IF colIndex + 1 > Len(cs)
    THEN cs \o [i \in 1..(colIndex - Len(cs)) |-> Hole] \o <<Bucket(<<id>>)>>
    ELSE [cs EXCEPT ![colIndex + 1] = Bucket(Append(@.items, id))]

\* let colIndex = index % this.displayColumns, counting the index from 1
InitialIndexOffByOne(i, n) == (i + 1) % n

\* let colIndex = index % this.displayColumns
InitialIndex(i, n) == i % n

InitDistribute ==
    /\ slots \in SlotContents
    /\ displayColumns \in {Num(c) : c \in 1..MaxCols}
    /\ fillGaps \in BOOLEAN
    /\ vnodes = <<>> /\ index = 0 /\ heights = <<>> /\ columns = <<>>
    /\ dpc = "start"
    /\ cols = Num(DefaultCols) /\ gutter = Num(DefaultGutter)
    /\ hasWindow = TRUE /\ innerWidth = 0
    /\ displayGutter = Num(DefaultDisplayGutter)
    /\ ControlIdle /\ PluginIdle /\ ResolverIdle

\* up to the forEach: unwrap a leading <transition-group>, create columns
\* and heights, drop the nodes with no tag
BeginPass ==
    /\ dpc = "start"
    /\ vnodes' = FilterTagged(IF slots # <<>> /\ slots[1].group
                              THEN slots[1].kids ELSE slots)
    /\ columns' = InitialColumns(displayColumns.n)
    /\ heights' = [i \in 1..displayColumns.n |-> 0]
    /\ index' = 0
    /\ dpc' = "loop"
    /\ UNCHANGED <<slots, resolverVars, propVars, dataVars, controlVars, pluginVars>>

\* one call of the forEach callback
PlaceVnode ==
    /\ dpc = "loop" /\ index < Len(vnodes)
    /\ LET vnode == vnodes[index + 1]
           fill == fillGaps /\ vnode.elm
           colIndex == IF fill THEN getShortestColumnIndex(heights)
                       ELSE InitialIndex(index, displayColumns.n)
       IN /\ heights' = IF fill
                        THEN [heights EXCEPT ![colIndex + 1] = @ + vnode.offsetHeight]
                        ELSE heights
          /\ columns' = PushInto(columns, colIndex, vnode.id)
    /\ index' = index + 1
    /\ UNCHANGED <<slots, vnodes, dpc>>
    /\ UNCHANGED <<resolverVars, propVars, dataVars, controlVars, pluginVars>>

\* return columns
ReturnColumns ==
    /\ dpc = "loop" /\ index = Len(vnodes)
    /\ dpc' = "done"
    /\ UNCHANGED <<slots, vnodes, index, heights, columns>>
    /\ UNCHANGED <<resolverVars, propVars, dataVars, controlVars, pluginVars>>

NextDistribute == BeginPass \/ PlaceVnode \/ ReturnColumns

SpecDistribute == InitDistribute /\ [][NextDistribute]_vars


\* ============================================================== claims

\* ------------------------------------------------------------- C2
\* C2: no operation throws for malformed configuration: whatever `cols` and
\* `gutter` are, reCalculate (and the breakpointValue calls in it) ends
\* normally, never with an error.
C2_NeverThrows == outcome # "TypeError"

\* ------------------------------------------------------------- C3
\* C3: in every reachable state of the component displayColumns is a number
\* >= 1, however degenerate the value resolved from `cols` is.
C3_ColumnsAtLeastOne == LessEq(Num(1), displayColumns)

\* a recalculation has stored 1 for a resolved value that is 0, negative or NaN
C3_Witness ==
    /\ outcome = "updated" /\ windowWidth # Undefined /\ cols # Null
    /\ ~Less(Num(0), ColumnCountUnclamped(breakpointValue(cols, windowWidth)))
    /\ displayColumns = Num(1)

\* ------------------------------------------------------------- C7
\* a step that runs reCalculate while the viewport width equals the recorded one
ReCalculateAtRecordedWidth ==
    \/ NextTick /\ CurrentWidth(innerWidth) = windowWidth
    \/ \E w \in 0..MaxWidth : Resize(w) /\ listener /\ CurrentWidth(w) = windowWidth

\* C7: reCalculate at an unchanged width is a no-op: displayColumns and
\* displayGutter stay as they are and no re-render is requested.
C7_NoOpAtSameWidth ==
    [][ReCalculateAtRecordedWidth =>
          /\ UNCHANGED <<displayColumns, displayGutter, dirty>>
          /\ outcome' = "unchanged"]_vars

\* reCalculate returned early although the props now resolve to other values
C7_Witness ==
    /\ outcome = "unchanged" /\ cols # Null /\ gutter # Null
    /\ displayColumns # ColumnCount(breakpointValue(cols, windowWidth))

\* ------------------------------------------------------------- C8
\* C8: once beforeDestroy has run, no resize listener of the component
\* remains registered (so no resize event reaches reCalculate any more).
C8_ListenerRemoved == lifecycle = "destroyed" => ~listener

\* a component that registered its listener on mount has been destroyed
C8_Witness == lifecycle = "destroyed" /\ hasWindow /\ windowWidth # Undefined

\* ------------------------------------------------------------- C9
\* C9: after any sequence of Plugin.install calls the component has been
\* registered exactly once, by the first call.
C9_RegisteredOnce == Len(registry) <= 1

\* ------------------------------------------------------------- C10
\* C10: whenever a deferred reCalculate (queued by mounted or updated) has
\* run, displayColumns is max(1, resolved cols) and displayGutter the resolved
\* gutter, for the props and the viewport width of that moment. Stated here
\* for props that are not null, where breakpointValue cannot throw.
C10_TickRefreshesDisplay ==
    [][(NextTick /\ cols # Null /\ gutter # Null) =>
          /\ displayColumns' =
                ColumnCount(breakpointValue(cols, CurrentWidth(innerWidth)))
          /\ displayGutter' = breakpointValue(gutter, CurrentWidth(innerWidth))]_vars

\* ------------------------------------------------------------- C4
\* the sequence the pass distributes: the slot content, or the children of a
\* leading <transition-group>
PassInput == IF slots # <<>> /\ slots[1].group THEN slots[1].kids ELSE slots
TaggedPositions == {p \in 1..Len(PassInput) : PassInput[p].tag}
\* the index of the tagged node at position p within the filtered sequence
FilteredIndex(p) == Cardinality({q \in TaggedPositions : q < p})
RECURSIVE ItemCount(_)
ItemCount(cs) == IF cs = <<>> THEN 0 ELSE Len(Head(cs).items) + ItemCount(Tail(cs))

\* C4: with fillGaps false the nodes without a tag are dropped and the i-th
\* remaining child is the (i div n)-th item of bucket i mod n, so every
\* remaining child is in exactly one bucket and buckets keep input order.
C4_RoundRobin ==
    (dpc = "done" /\ ~fillGaps) =>
        /\ \A p \in TaggedPositions :
              LET i == FilteredIndex(p)
                  c == i % displayColumns.n
                  r == i \div displayColumns.n
              IN /\ c + 1 <= Len(columns)
                 /\ r + 1 <= Len(columns[c + 1].items)
                 /\ columns[c + 1].items[r + 1] = PassInput[p].id
        /\ ItemCount(columns) = Cardinality(TaggedPositions)

\* a finished pass that dropped a node with no tag, so that a later child's
\* column is decided by its index in the filtered sequence, and that put two
\* children in one bucket
C4_Witness ==
    /\ dpc = "done" /\ ~fillGaps /\ displayColumns.n > 1
    /\ \E p \in TaggedPositions :
          FilteredIndex(p) % displayColumns.n # (p - 1) % displayColumns.n
    /\ \E c \in 1..Len(columns) : Len(columns[c].items) > 1

\* ------------------------------------------------------------- C5
\* the forEach callback put id at the end of bucket c and left the rest alone
PlacedIn(c, id) ==
    /\ c + 1 <= Len(columns')
    /\ columns'[c + 1].present
    /\ columns'[c + 1].items =
          Append(IF c + 1 <= Len(columns) THEN columns[c + 1].items ELSE <<>>, id)
    /\ \A j \in 1..Len(columns) : j # c + 1 => columns'[j] = columns[j]

\* C5: with fillGaps true the accumulators start at 0 on every pass; a
\* measured child goes to the first column of minimal accumulated height,
\* which grows by the child's height, the others unchanged; an unmeasured
\* child goes to column (filtered index mod columnCount), no accumulator changes.
C5_FillGaps ==
    [][/\ BeginPass => heights' = [i \in 1..displayColumns.n |-> 0]
       /\ (PlaceVnode /\ fillGaps) =>
            LET child == vnodes[index + 1]
            IN IF child.elm
               THEN \E c \in 0..(displayColumns.n - 1) :
                      /\ \A d \in 0..(displayColumns.n - 1) :
                            /\ heights[c + 1] <= heights[d + 1]
                            /\ d < c => heights[c + 1] < heights[d + 1]
                      /\ PlacedIn(c, child.id)
                      /\ heights' = [heights EXCEPT ![c + 1] = @ + child.offsetHeight]
               ELSE /\ PlacedIn(index % displayColumns.n, child.id)
                    /\ heights' = heights]_vars

\* a finished gap-filling pass that placed a measured child in a column other
\* than its round-robin one and an unmeasured child as well
C5_Witness ==
    /\ dpc = "done" /\ fillGaps
    /\ \E i \in 1..Len(vnodes) : ~vnodes[i].elm
    /\ \E i \in 1..Len(vnodes) :
          /\ vnodes[i].elm
          /\ \A c \in 1..Len(columns) :
                (\E r \in 1..Len(columns[c].items) : columns[c].items[r] = vnodes[i].id)
                    => c - 1 # (i - 1) % displayColumns.n
    /\ \E c \in 1..Len(heights) : heights[c] > 1

=============================================================================
